---- MODULE Spec2Model ----
(***************************************************************************)
(* Partition layout calculator (partion.py) and the partition-manager      *)
(* reader of the flash analyzer (analyze_flash.py).                        *)
(*                                                                         *)
(* Python strings that are only compared are TLA+ strings; text that is    *)
(* written to a file and read back is a sequence of one-character strings, *)
(* so that formatting and parsing are computed character by character.     *)
(***************************************************************************)
EXTENDS Integers, Sequences, FiniteSets, TLC

VARIABLES
    flash_size,   \* FLASH_SIZE of the run (calculate_partitions' first argument)
    partitions,   \* the (name, size) requests of the run
    pc,           \* position in main / in the call of calculate_partitions
    layout,       \* value returned by calculate_partitions (<<>> before it returns)
    error,        \* exception raised by calculate_partitions (NoError if none)
    fs,           \* working directory: file name -> NoFile or File(text)
    usage,        \* what analyze_partition_usage returned last (NotRun if not run)
    fs0,          \* history: fs when the current run of main started
    renamed,      \* history: files os.rename moved to their backup in this run
    written,      \* history: files opened with "w" and written in this run
    emitted       \* history: the emitter calls of this run, with their argument

vars == <<flash_size, partitions, pc, layout, error, fs, usage, fs0, renamed,
          written, emitted>>

(***************************************************************************)
(* Bounds of the enumerated inputs of calculate_partitions.                *)
(***************************************************************************)
MaxLen == 3
MaxSize == 3
MaxCap == 6

(***************************************************************************)
(* The characters of the string literals of the program (and of the        *)
(* partition names and hand-written files used as inputs).                 *)
(***************************************************************************)
Chars ==
       ("mcuboot" :>
          <<"m", "c", "u", "b", "o", "o", "t">>) @@
       ("slot0" :>
          <<"s", "l", "o", "t", "0">>) @@
       ("slot1" :>
          <<"s", "l", "o", "t", "1">>) @@
       ("scratch" :>
          <<"s", "c", "r", "a", "t", "c", "h">>) @@
       ("storage" :>
          <<"s", "t", "o", "r", "a", "g", "e">>) @@
       ("a" :>
          <<"a">>) @@
       ("b" :>
          <<"b">>) @@
       ("mcuboot_primary" :>
          <<"m", "c", "u", "b", "o", "o", "t", "_", "p", "r", "i", "m", "a", "r", "y">>) @@
       ("mcuboot_secondary" :>
          <<"m", "c", "u", "b", "o", "o", "t", "_", "s", "e", "c", "o", "n", "d", "a", "r", "y">>) @@
       ("mcuboot_scratch" :>
          <<"m", "c", "u", "b", "o", "o", "t", "_", "s", "c", "r", "a", "t", "c", "h">>) @@
       ("settings_storage" :>
          <<"s", "e", "t", "t", "i", "n", "g", "s", "_", "s", "t", "o", "r", "a", "g", "e">>) @@
       ("image-0" :>
          <<"i", "m", "a", "g", "e", "-", "0">>) @@
       ("image-1" :>
          <<"i", "m", "a", "g", "e", "-", "1">>) @@
       ("image-scratch" :>
          <<"i", "m", "a", "g", "e", "-", "s", "c", "r", "a", "t", "c", "h">>) @@
       ("# Auto-generated pm_static.yml from partion.py\n" :>
          <<"#", " ", "A", "u", "t", "o", "-", "g", "e", "n", "e", "r", "a", "t", "e", "d", " ", "p", "m", "_", "s", "t", "a", "t", "i", "c", ".", "y", "m", "l", " ", "f", "r", "o", "m", " ", "p", "a", "r", "t", "i", "o", "n", ".", "p", "y", "\n">>) @@
       ("# Nordic Partition Manager static configuration\n\n" :>
          <<"#", " ", "N", "o", "r", "d", "i", "c", " ", "P", "a", "r", "t", "i", "t", "i", "o", "n", " ", "M", "a", "n", "a", "g", "e", "r", " ", "s", "t", "a", "t", "i", "c", " ", "c", "o", "n", "f", "i", "g", "u", "r", "a", "t", "i", "o", "n", "\n", "\n">>) @@
       (":\n" :>
          <<":", "\n">>) @@
       ("  address: " :>
          <<" ", " ", "a", "d", "d", "r", "e", "s", "s", ":", " ">>) @@
       ("\n" :>
          <<"\n">>) @@
       ("  end_address: " :>
          <<" ", " ", "e", "n", "d", "_", "a", "d", "d", "r", "e", "s", "s", ":", " ">>) @@
       ("  region: flash_primary\n" :>
          <<" ", " ", "r", "e", "g", "i", "o", "n", ":", " ", "f", "l", "a", "s", "h", "_", "p", "r", "i", "m", "a", "r", "y", "\n">>) @@
       ("  size: " :>
          <<" ", " ", "s", "i", "z", "e", ":", " ">>) @@
       ("\n\n" :>
          <<"\n", "\n">>) @@
       ("// Auto-generated app.overlay from partion.py\n" :>
          <<"/", "/", " ", "A", "u", "t", "o", "-", "g", "e", "n", "e", "r", "a", "t", "e", "d", " ", "a", "p", "p", ".", "o", "v", "e", "r", "l", "a", "y", " ", "f", "r", "o", "m", " ", "p", "a", "r", "t", "i", "o", "n", ".", "p", "y", "\n">>) @@
       ("// Device tree overlay for partition configuration\n\n" :>
          <<"/", "/", " ", "D", "e", "v", "i", "c", "e", " ", "t", "r", "e", "e", " ", "o", "v", "e", "r", "l", "a", "y", " ", "f", "o", "r", " ", "p", "a", "r", "t", "i", "t", "i", "o", "n", " ", "c", "o", "n", "f", "i", "g", "u", "r", "a", "t", "i", "o", "n", "\n", "\n">>) @@
       ("/ {\n" :>
          <<"/", " ", "{", "\n">>) @@
       ("\tchosen {\n" :>
          <<"\t", "c", "h", "o", "s", "e", "n", " ", "{", "\n">>) @@
       ("\t\tzephyr,code-partition = &slot0_partition;\n" :>
          <<"\t", "\t", "z", "e", "p", "h", "y", "r", ",", "c", "o", "d", "e", "-", "p", "a", "r", "t", "i", "t", "i", "o", "n", " ", "=", " ", "&", "s", "l", "o", "t", "0", "_", "p", "a", "r", "t", "i", "t", "i", "o", "n", ";", "\n">>) @@
       ("\t};\n" :>
          <<"\t", "}", ";", "\n">>) @@
       ("};\n\n" :>
          <<"}", ";", "\n", "\n">>) @@
       ("&flash0 {\n" :>
          <<"&", "f", "l", "a", "s", "h", "0", " ", "{", "\n">>) @@
       ("\tpartitions {\n" :>
          <<"\t", "p", "a", "r", "t", "i", "t", "i", "o", "n", "s", " ", "{", "\n">>) @@
       ("\t\tcompatible = \"fixed-partitions\";\n" :>
          <<"\t", "\t", "c", "o", "m", "p", "a", "t", "i", "b", "l", "e", " ", "=", " ", "\"", "f", "i", "x", "e", "d", "-", "p", "a", "r", "t", "i", "t", "i", "o", "n", "s", "\"", ";", "\n">>) @@
       ("\t\t#address-cells = <1>;\n" :>
          <<"\t", "\t", "#", "a", "d", "d", "r", "e", "s", "s", "-", "c", "e", "l", "l", "s", " ", "=", " ", "<", "1", ">", ";", "\n">>) @@
       ("\t\t#size-cells = <1>;\n\n" :>
          <<"\t", "\t", "#", "s", "i", "z", "e", "-", "c", "e", "l", "l", "s", " ", "=", " ", "<", "1", ">", ";", "\n", "\n">>) @@
       ("\t\t" :>
          <<"\t", "\t">>) @@
       ("_partition" :>
          <<"_", "p", "a", "r", "t", "i", "t", "i", "o", "n">>) @@
       (" {\n" :>
          <<" ", "{", "\n">>) @@
       (": partition@" :>
          <<":", " ", "p", "a", "r", "t", "i", "t", "i", "o", "n", "@">>) @@
       ("\t\t\tlabel = \"" :>
          <<"\t", "\t", "\t", "l", "a", "b", "e", "l", " ", "=", " ", "\"">>) @@
       ("\";\n" :>
          <<"\"", ";", "\n">>) @@
       ("\t\t\treg = <" :>
          <<"\t", "\t", "\t", "r", "e", "g", " ", "=", " ", "<">>) @@
       (" " :>
          <<" ">>) @@
       (">;\n" :>
          <<">", ";", "\n">>) @@
       ("\t\t\tread-only;\n" :>
          <<"\t", "\t", "\t", "r", "e", "a", "d", "-", "o", "n", "l", "y", ";", "\n">>) @@
       ("\t\t\t// Primary application slot\n" :>
          <<"\t", "\t", "\t", "/", "/", " ", "P", "r", "i", "m", "a", "r", "y", " ", "a", "p", "p", "l", "i", "c", "a", "t", "i", "o", "n", " ", "s", "l", "o", "t", "\n">>) @@
       ("\t\t\t// Secondary application slot\n" :>
          <<"\t", "\t", "\t", "/", "/", " ", "S", "e", "c", "o", "n", "d", "a", "r", "y", " ", "a", "p", "p", "l", "i", "c", "a", "t", "i", "o", "n", " ", "s", "l", "o", "t", "\n">>) @@
       ("\t\t\t// MCUboot scratch area\n" :>
          <<"\t", "\t", "\t", "/", "/", " ", "M", "C", "U", "b", "o", "o", "t", " ", "s", "c", "r", "a", "t", "c", "h", " ", "a", "r", "e", "a", "\n">>) @@
       ("\t\t\t// Settings storage\n" :>
          <<"\t", "\t", "\t", "/", "/", " ", "S", "e", "t", "t", "i", "n", "g", "s", " ", "s", "t", "o", "r", "a", "g", "e", "\n">>) @@
       ("\t\t};\n\n" :>
          <<"\t", "\t", "}", ";", "\n", "\n">>) @@
       ("};\n" :>
          <<"}", ";", "\n">>) @@
       ("0x" :>
          <<"0", "x">>) @@
       ("app:\n  address: 0x0\n  size: 0x100\n" :>
          <<"a", "p", "p", ":", "\n", " ", " ", "a", "d", "d", "r", "e", "s", "s", ":", " ", "0", "x", "0", "\n", " ", " ", "s", "i", "z", "e", ":", " ", "0", "x", "1", "0", "0", "\n">>) @@
       ("size" :>
          <<"s", "i", "z", "e">>) @@
       ("address" :>
          <<"a", "d", "d", "r", "e", "s", "s">>) @@
       ("end_address" :>
          <<"e", "n", "d", "_", "a", "d", "d", "r", "e", "s", "s">>) @@
       ("/ { };\n" :>
          <<"/", " ", "{", " ", "}", ";", "\n">>)

\* str -> characters, for the names interpolated into f-strings
Str(s) == Chars[s]

RECURSIVE Concat(_)
\* "".join(parts): the += chain that builds a file's content
Concat(parts) ==
    IF parts = <<>> THEN <<>> ELSE Head(parts) \o Concat(Tail(parts))

(***************************************************************************)
(* Integer formatting (format specs x, #x, #010x) of non-negative ints.    *)
(***************************************************************************)
HexDigits == <<"0", "1", "2", "3", "4", "5", "6", "7", "8", "9",
               "a", "b", "c", "d", "e", "f">>

RECURSIVE format_x(_)
\* f"{n:x}"
format_x(n) ==
    IF n < 16 THEN <<HexDigits[n + 1]>>
    ELSE Append(format_x(n \div 16), HexDigits[(n % 16) + 1])

\* f"{n:#x}"
format_hash_x(n) == Chars["0x"] \o format_x(n)

RECURSIVE ZeroPad(_, _)
ZeroPad(digits, width) ==
    IF Len(digits) >= width THEN digits ELSE ZeroPad(<<"0">> \o digits, width)

\* f"{n:#010x}": total width 10, of which "0x" takes two
format_hash_010x(n) == Chars["0x"] \o ZeroPad(format_x(n), 8)

(***************************************************************************)
(* calculate_partitions                                                    *)
(***************************************************************************)
NoError == [type |-> "none"]

\* faulty variant: the message does not interpolate the partition's name
ValueError_generic(name) ==
    [type |-> "ValueError",
     message |-> [template |-> "Partition exceeds flash size!"]]

\* ValueError(f"Partition '{name}' exceeds flash size!"): the message's
\* template and the values substituted into it
ValueError(name) ==
    [type |-> "ValueError",
     message |-> [template |-> "Partition '{name}' exceeds flash size!",
                  name |-> name]]

RECURSIVE calculate_loop(_, _, _, _, _)
\* the for loop of calculate_partitions, from request i on
calculate_loop(size_limit, requests, i, current_address, partition_layout) ==
    IF i > Len(requests)
    THEN [raised |-> FALSE, value |-> partition_layout, error |-> NoError]
    ELSE LET name == requests[i][1]
             size == requests[i][2]
         IN  IF current_address + size > size_limit
             THEN [raised |-> TRUE, value |-> <<>>, error |-> ValueError(name)]
             ELSE calculate_loop(size_limit, requests, i + 1,
                                 current_address + size,
                                 Append(partition_layout,
                                        [name |-> name,
                                         start |-> current_address,
                                         end |-> current_address + size,
                                         size |-> size]))

RECURSIVE calculate_loop_ge(_, _, _, _, _)
\* faulty variant: the capacity test rejects a partition that ends exactly at the limit
calculate_loop_ge(size_limit, requests, i, current_address, partition_layout) ==
    IF i > Len(requests)
    THEN [raised |-> FALSE, value |-> partition_layout, error |-> NoError]
    ELSE LET name == requests[i][1]
             size == requests[i][2]
         IN  IF current_address + size >= size_limit
             THEN [raised |-> TRUE, value |-> <<>>, error |-> ValueError(name)]
             ELSE calculate_loop_ge(size_limit, requests, i + 1,
                                    current_address + size,
                                    Append(partition_layout,
                                           [name |-> name,
                                            start |-> current_address,
                                            end |-> current_address + size,
                                            size |-> size]))

calculate_partitions_ge(size_limit, requests) ==
    calculate_loop_ge(size_limit, requests, 1, 0, <<>>)

calculate_partitions(size_limit, requests) ==
    calculate_loop(size_limit, requests, 1, 0, <<>>)

(***************************************************************************)
(* The configuration of main, and the other inputs that are enumerated.    *)
(***************************************************************************)
FLASH_SIZE == 1024 * 1024
mcuboot == 110 * 1024
storage == 76 * 1024
scratch == 1 * 1024
slot0_partition == (FLASH_SIZE - mcuboot - storage - scratch) \div 2
slot1_partition == slot0_partition

MainPartitions ==
    << <<"mcuboot", mcuboot>>, <<"slot0", slot0_partition>>,
       <<"slot1", slot1_partition>>, <<"scratch", scratch>>,
       <<"storage", storage>> >>

MainConfig == [flash_size |-> FLASH_SIZE, partitions |-> MainPartitions]

\* the worked examples of the documentation
ExamplePartitions ==
    << <<"mcuboot", 112640>>, <<"slot0", 430080>>, <<"slot1", 430080>>,
       <<"scratch", 1024>>, <<"storage", 77824>> >>

ExampleConfig == [flash_size |-> 1048576, partitions |-> ExamplePartitions]

OverflowConfig ==
    [flash_size |-> 1024, partitions |-> << <<"a", 600>>, <<"b", 600>> >>]

CalcNames == {"a", "b"}

BoundedRequests ==
    UNION {[1..n -> CalcNames \X (0..MaxSize)] : n \in 0..MaxLen}

CalcInputs ==
    [flash_size : 0..MaxCap, partitions : BoundedRequests]
        \cup {MainConfig, ExampleConfig, OverflowConfig}

(***************************************************************************)
(* The working directory.                                                  *)
(***************************************************************************)
NoFile == [exists |-> FALSE, content |-> <<>>]
File(text) == [exists |-> TRUE, content |-> text]

files_to_backup == <<"pm_static.yml", "app.overlay">>
backup_name(filename) == filename \o ".backup"
FileNames ==
    {files_to_backup[i] : i \in 1..2} \cup {backup_name(files_to_backup[i]) : i \in 1..2}

NotRun == [kind |-> "not run", partitions |-> <<>>]

(***************************************************************************)
(* Lookup tables and the two emitters.                                     *)
(***************************************************************************)
name_mapping ==
    [mcuboot |-> "mcuboot", slot0 |-> "mcuboot_primary",
     slot1 |-> "mcuboot_secondary", scratch |-> "mcuboot_scratch",
     storage |-> "settings_storage"]

\* name_mapping.get(partition_name, partition_name)
get_pm_static_name(partition_name) ==
    IF partition_name \in DOMAIN name_mapping
    THEN name_mapping[partition_name] ELSE partition_name

label_mapping ==
    [mcuboot |-> "mcuboot", slot0 |-> "image-0", slot1 |-> "image-1",
     scratch |-> "image-scratch", storage |-> "storage"]

\* label_mapping.get(partition_name, partition_name)
get_overlay_label(partition_name) ==
    IF partition_name \in DOMAIN label_mapping
    THEN label_mapping[partition_name] ELSE partition_name

\* faulty variant: the size line is formatted from the record's end
pm_static_block_end(partition) ==
    Concat(<< Str(get_pm_static_name(partition.name)), Chars[":\n"],
              Chars["  address: "], format_hash_x(partition.start), Chars["\n"],
              Chars["  end_address: "], format_hash_x(partition.end), Chars["\n"],
              Chars["  region: flash_primary\n"],
              Chars["  size: "], format_hash_x(partition.end), Chars["\n\n"] >>)

\* what one iteration of update_pm_static_yml's loop appends
pm_static_block(partition) ==
    Concat(<< Str(get_pm_static_name(partition.name)), Chars[":\n"],
              Chars["  address: "], format_hash_x(partition.start), Chars["\n"],
              Chars["  end_address: "], format_hash_x(partition.end), Chars["\n"],
              Chars["  region: flash_primary\n"],
              Chars["  size: "], format_hash_x(partition.size), Chars["\n\n"] >>)

\* pm_static_content as update_pm_static_yml writes it
pm_static_content(records) ==
    Concat(<< Chars["# Auto-generated pm_static.yml from partion.py\n"],
              Chars["# Nordic Partition Manager static configuration\n\n"] >>)
        \o Concat([i \in 1..Len(records) |-> pm_static_block(records[i])])

\* the if/elif chain on partition['name'] in update_app_overlay
overlay_annotation(name) ==
    IF name = "mcuboot" THEN Chars["\t\t\tread-only;\n"]
    ELSE IF name = "slot0" THEN Chars["\t\t\t// Primary application slot\n"]
    ELSE IF name = "slot1" THEN Chars["\t\t\t// Secondary application slot\n"]
    ELSE IF name = "scratch" THEN Chars["\t\t\t// MCUboot scratch area\n"]
    ELSE IF name = "storage" THEN Chars["\t\t\t// Settings storage\n"]
    ELSE <<>>

\* faulty variant: reg is formatted from the record's start and end
overlay_node_end(partition) ==
    Concat(<< Chars["\t\t"], Str(partition.name), Chars["_partition"],
              Chars[": partition@"], format_x(partition.start), Chars[" {\n"],
              Chars["\t\t\tlabel = \""], Str(get_overlay_label(partition.name)),
              Chars["\";\n"],
              Chars["\t\t\treg = <"], format_hash_010x(partition.start), Chars[" "],
              format_hash_010x(partition.end), Chars[">;\n"],
              overlay_annotation(partition.name),
              Chars["\t\t};\n\n"] >>)

\* what one iteration of update_app_overlay's loop appends
overlay_node(partition) ==
    Concat(<< Chars["\t\t"], Str(partition.name), Chars["_partition"],
              Chars[": partition@"], format_x(partition.start), Chars[" {\n"],
              Chars["\t\t\tlabel = \""], Str(get_overlay_label(partition.name)),
              Chars["\";\n"],
              Chars["\t\t\treg = <"], format_hash_010x(partition.start), Chars[" "],
              format_hash_010x(partition.size), Chars[">;\n"],
              overlay_annotation(partition.name),
              Chars["\t\t};\n\n"] >>)

overlay_preamble ==
    Concat(<< Chars["// Auto-generated app.overlay from partion.py\n"],
              Chars["// Device tree overlay for partition configuration\n\n"],
              Chars["/ {\n"],
              Chars["\tchosen {\n"],
              Chars["\t\tzephyr,code-partition = &slot0_partition;\n"],
              Chars["\t};\n"],
              Chars["};\n\n"],
              Chars["&flash0 {\n"],
              Chars["\tpartitions {\n"],
              Chars["\t\tcompatible = \"fixed-partitions\";\n"],
              Chars["\t\t#address-cells = <1>;\n"],
              Chars["\t\t#size-cells = <1>;\n\n"] >>)

\* overlay_content as update_app_overlay writes it
overlay_content(records) ==
    Concat(<< overlay_preamble,
              Concat([i \in 1..Len(records) |-> overlay_node(records[i])]),
              Chars["\t};\n"],
              Chars["};\n"] >>)

(***************************************************************************)
(* create_backup_files                                                     *)
(***************************************************************************)
\* faulty variant: the backup is renamed over an existing backup
backup_one_always(dir, filename) ==
    IF dir[filename].exists
    THEN [dir EXCEPT ![backup_name(filename)] = dir[filename],
                     ![filename] = NoFile]
    ELSE dir

\* one iteration of the loop: os.rename(filename, backup_name) when the file
\* exists and its backup does not
backup_one(dir, filename) ==
    IF dir[filename].exists /\ ~dir[backup_name(filename)].exists
    THEN [dir EXCEPT ![backup_name(filename)] = dir[filename],
                     ![filename] = NoFile]
    ELSE dir

create_backup_files(dir) ==
    backup_one(backup_one(dir, files_to_backup[1]), files_to_backup[2])

(***************************************************************************)
(* analyze_partition_usage (analyze_flash.py)                              *)
(***************************************************************************)
Whitespace == {" ", "\t", "\n", "\r"}

\* the index of the first line terminator of text at or after from, or
\* Len(text) if there is none
LineEnd(text, from) ==
    IF \E i \in from..Len(text) : text[i] = "\n"
    THEN CHOOSE i \in from..Len(text) :
            /\ text[i] = "\n"
            /\ \A j \in from..(i - 1) : text[j] # "\n"
    ELSE Len(text)

RECURSIVE LinesFrom(_, _)
LinesFrom(text, from) ==
    IF from > Len(text) THEN <<>>
    ELSE LET e == LineEnd(text, from)
         IN  <<SubSeq(text, from, e)>> \o LinesFrom(text, e + 1)

\* "for line in f": the lines of the file, each with its terminator
FileLines(text) == LinesFrom(text, 1)

\* str.strip()
strip(line) ==
    LET keep == {i \in 1..Len(line) : line[i] \notin Whitespace}
    IN  IF keep = {} THEN <<>>
        ELSE SubSeq(line,
                    CHOOSE i \in keep : \A j \in keep : i <= j,
                    CHOOSE i \in keep : \A j \in keep : i >= j)

\* str.rstrip(':')
rstrip_colon(line) ==
    LET keep == {i \in 1..Len(line) : line[i] # ":"}
    IN  IF keep = {} THEN <<>>
        ELSE SubSeq(line, 1, CHOOSE i \in keep : \A j \in keep : i >= j)

\* line.startswith(prefix)
startswith(line, prefix) ==
    /\ Len(line) >= Len(prefix)
    /\ SubSeq(line, 1, Len(prefix)) = prefix

\* ':' in line
contains(line, c) == \E i \in 1..Len(line) : line[i] = c

\* line.split(':', 1), for a line that contains ':'
split_colon(line) ==
    LET k == CHOOSE i \in 1..Len(line) :
                /\ line[i] = ":"
                /\ \A j \in 1..(i - 1) : line[j] # ":"
    IN  <<SubSeq(line, 1, k - 1), SubSeq(line, k + 1, Len(line))>>

HexValue ==
    [c \in {"0", "1", "2", "3", "4", "5", "6", "7", "8", "9", "a", "b", "c",
            "d", "e", "f", "A", "B", "C", "D", "E", "F"} |->
        CASE c = "0" -> 0 [] c = "1" -> 1 [] c = "2" -> 2 [] c = "3" -> 3
          [] c = "4" -> 4 [] c = "5" -> 5 [] c = "6" -> 6 [] c = "7" -> 7
          [] c = "8" -> 8 [] c = "9" -> 9
          [] c \in {"a", "A"} -> 10 [] c \in {"b", "B"} -> 11
          [] c \in {"c", "C"} -> 12 [] c \in {"d", "D"} -> 13
          [] c \in {"e", "E"} -> 14 [] c \in {"f", "F"} -> 15]

RECURSIVE DigitsValue(_)
DigitsValue(digits) ==
    IF digits = <<>> THEN 0
    ELSE 16 * DigitsValue(SubSeq(digits, 1, Len(digits) - 1))
            + HexValue[digits[Len(digits)]]

\* int(value, 16) of a stripped string: an optional sign, an optional 0x
\* prefix, then hex digits; anything else raises ValueError (ok = FALSE)
int16(value) ==
    LET signed == Len(value) > 0 /\ value[1] \in {"+", "-"}
        body == IF signed THEN Tail(value) ELSE value
        prefixed == /\ Len(body) >= 2
                    /\ body[1] = "0"
                    /\ body[2] \in {"x", "X"}
        digits == IF prefixed THEN SubSeq(body, 3, Len(body)) ELSE body
    IN  IF digits # <<>> /\ \A i \in 1..Len(digits) : digits[i] \in DOMAIN HexValue
        THEN [ok |-> TRUE,
              value |-> IF signed /\ value[1] = "-"
                        THEN 0 - DigitsValue(digits) ELSE DigitsValue(digits)]
        ELSE [ok |-> FALSE, value |-> 0]

usage_keys == {"size", "address", "end_address"}

\* the state of the loop before any line is read: current_partition = None,
\* partitions = {}
ParseStart ==
    [current_set |-> FALSE, current_partition |-> <<>>, partitions |-> <<>>,
     failed |-> FALSE]

\* the body of "for line in f" for one line as read from the file
parse_line(st, raw) ==
    LET line == strip(raw)
    IN  IF st.failed \/ line = <<>> \/ startswith(line, <<"#">>) THEN st
        ELSE IF contains(line, ":") /\ ~startswith(line, <<" ">>)
        THEN [st EXCEPT !.current_set = TRUE,
                        !.current_partition = rstrip_colon(line),
                        !.partitions = (rstrip_colon(line) :> <<>>) @@ @]
        ELSE IF st.current_set /\ st.current_partition # <<>> /\ contains(line, ":")
        THEN LET kv == split_colon(line)
                 key == strip(kv[1])
                 value == strip(kv[2])
             IN  IF \E k \in usage_keys : Str(k) = key
                 THEN LET k == CHOOSE k \in usage_keys : Str(k) = key
                          n == int16(value)
                      IN  IF n.ok
                          THEN [st EXCEPT !.partitions =
                                   (st.current_partition :>
                                       ((k :> n.value) @@ @[st.current_partition]))
                                   @@ @]
                          ELSE [st EXCEPT !.failed = TRUE]
                 ELSE st
        ELSE st

RECURSIVE parse_lines(_, _, _)
parse_lines(st, lines, i) ==
    IF i > Len(lines) THEN st
    ELSE parse_lines(parse_line(st, lines[i]), lines, i + 1)

\* None when pm_static.yml is missing or a value does not parse, else the
\* dictionary partition -> {key -> int}
analyze_partition_usage(dir) ==
    IF ~dir["pm_static.yml"].exists THEN [kind |-> "None", partitions |-> <<>>]
    ELSE LET st == parse_lines(ParseStart,
                               FileLines(dir["pm_static.yml"].content), 1)
         IN  IF st.failed THEN [kind |-> "None", partitions |-> <<>>]
             ELSE [kind |-> "dict", partitions |-> st.partitions]

(***************************************************************************)
(* Runs of main (partion.py) and of the analyzer over one working          *)
(* directory.  FLASH_SIZE and the partitions are assignments in main's     *)
(* source; a run is taken with main's own values or with an edit of them.  *)
(***************************************************************************)
RunConfigs ==
    {MainConfig, ExampleConfig, OverflowConfig,
     [flash_size |-> 1024, partitions |-> << <<"a", 600>>, <<"b", 300>> >>],
     [flash_size |-> 1024, partitions |-> <<>>]}

\* hand-written files a working directory may hold before the first run
OriginalFiles ==
    [f \in FileNames |->
        IF f = "pm_static.yml"
        THEN File(Chars["app:\n  address: 0x0\n  size: 0x100\n"])
        ELSE IF f = "app.overlay" THEN File(Chars["/ { };\n"])
        ELSE NoFile]

Init ==
    /\ flash_size = 0
    /\ partitions = <<>>
    /\ pc = "idle"
    /\ layout = <<>>
    /\ error = NoError
    /\ \E present \in SUBSET {"pm_static.yml", "app.overlay"} :
          fs = [f \in FileNames |-> IF f \in present THEN OriginalFiles[f] ELSE NoFile]
    /\ usage = NotRun
    /\ fs0 = fs
    /\ renamed = {}
    /\ written = {}
    /\ emitted = <<>>

Idle == pc \in {"idle", "done", "failed"}

\* main is started: its locals are set
StartMain ==
    /\ Idle
    /\ \E c \in RunConfigs :
          /\ flash_size' = c.flash_size
          /\ partitions' = c.partitions
    /\ pc' = "create_backup_files"
    /\ layout' = <<>>
    /\ error' = NoError
    /\ usage' = NotRun
    /\ fs0' = fs
    /\ renamed' = {}
    /\ written' = {}
    /\ emitted' = <<>>
    /\ UNCHANGED fs

\* line 189: create_backup_files()
CreateBackupFiles ==
    /\ pc = "create_backup_files"
    /\ fs' = create_backup_files(fs)
    /\ renamed' = {f \in FileNames : fs[f].exists /\ ~fs'[f].exists}
    /\ pc' = "calculate_partitions"
    /\ UNCHANGED <<flash_size, partitions, layout, error, usage, fs0, written, emitted>>

\* faulty variant: a ValueError does not stop the run, the emitters get what was
\* laid out before the overflow
Calculate_continue ==
    /\ pc = "calculate_partitions"
    /\ LET r == calculate_partitions(flash_size, partitions)
       IN  /\ pc' = "update_pm_static_yml"
           /\ layout' = r.value
           /\ error' = r.error
    /\ UNCHANGED <<flash_size, partitions, fs, usage, fs0, renamed, written, emitted>>

\* line 193: layout = calculate_partitions(FLASH_SIZE, partitions); a
\* ValueError is caught at line 215, which prints it and ends main
Calculate ==
    /\ pc = "calculate_partitions"
    /\ LET r == calculate_partitions(flash_size, partitions)
       IN  /\ pc' = IF r.raised THEN "failed" ELSE "update_pm_static_yml"
           /\ layout' = r.value
           /\ error' = r.error
    /\ UNCHANGED <<flash_size, partitions, fs, usage, fs0, renamed, written, emitted>>

\* line 203: update_pm_static_yml(layout)
UpdatePmStaticYml ==
    /\ pc = "update_pm_static_yml"
    /\ fs' = [fs EXCEPT !["pm_static.yml"] = File(pm_static_content(layout))]
    /\ written' = written \cup {"pm_static.yml"}
    /\ emitted' = Append(emitted, [emitter |-> "update_pm_static_yml", arg |-> layout])
    /\ pc' = "update_app_overlay"
    /\ UNCHANGED <<flash_size, partitions, layout, error, usage, fs0, renamed>>

\* line 204: update_app_overlay(layout), after which main returns
UpdateAppOverlay ==
    /\ pc = "update_app_overlay"
    /\ fs' = [fs EXCEPT !["app.overlay"] = File(overlay_content(layout))]
    /\ written' = written \cup {"app.overlay"}
    /\ emitted' = Append(emitted, [emitter |-> "update_app_overlay", arg |-> layout])
    /\ pc' = "done"
    /\ UNCHANGED <<flash_size, partitions, layout, error, usage, fs0, renamed>>

\* analyze_flash.py reads pm_static.yml of the working directory
AnalyzePartitionUsage ==
    /\ Idle
    /\ usage = NotRun
    /\ usage' = analyze_partition_usage(fs)
    /\ UNCHANGED <<flash_size, partitions, pc, layout, error, fs, fs0, renamed,
                   written, emitted>>

Next ==
    \/ StartMain
    \/ CreateBackupFiles
    \/ Calculate
    \/ UpdatePmStaticYml
    \/ UpdateAppOverlay
    \/ AnalyzePartitionUsage

Spec == Init /\ [][Next]_vars

(***************************************************************************)
(* A call of calculate_partitions on an enumerated input.                  *)
(***************************************************************************)
InitCalc ==
    /\ \E c \in CalcInputs :
          /\ flash_size = c.flash_size
          /\ partitions = c.partitions
    /\ pc = "call"
    /\ layout = <<>>
    /\ error = NoError
    /\ fs = [f \in FileNames |-> NoFile]
    /\ usage = NotRun
    /\ fs0 = fs
    /\ renamed = {}
    /\ written = {}
    /\ emitted = <<>>

CallCalculate ==
    /\ pc = "call"
    /\ LET r == calculate_partitions(flash_size, partitions)
       IN  /\ pc' = IF r.raised THEN "raised" ELSE "returned"
           /\ layout' = r.value
           /\ error' = r.error
    /\ UNCHANGED <<flash_size, partitions, fs, usage, fs0, renamed, written, emitted>>

NextCalc == CallCalculate

SpecCalc == InitCalc /\ [][NextCalc]_vars
(***************************************************************************)
(* Properties of calculate_partitions (checked under SpecCalc).            *)
(***************************************************************************)
RECURSIVE SumSizes(_, _)
\* the sum of the sizes of the first n requests
SumSizes(requests, n) ==
    IF n = 0 THEN 0 ELSE SumSizes(requests, n - 1) + requests[n][2]

Called == pc \in {"returned", "raised"}

\* the first request at which the cumulative sum of sizes exceeds the capacity
FirstOver ==
    CHOOSE i \in 1..Len(partitions) :
        /\ SumSizes(partitions, i) > flash_size
        /\ \A j \in 1..(i - 1) : SumSizes(partitions, j) <= flash_size

\* C1: when the sizes sum to at most the capacity, calculate_partitions
\* returns one record per request, in request order; the first record starts
\* at 0; each record has its request's name and size and end = start + size;
\* each record starts where the previous one ends, so records do not overlap;
\* and the last record ends at or below the capacity.
C1_LayoutTilesFlash ==
    (Called /\ SumSizes(partitions, Len(partitions)) <= flash_size) =>
        /\ pc = "returned"
        /\ Len(layout) = Len(partitions)
        /\ \A i \in 1..Len(layout) :
              /\ layout[i].name = partitions[i][1]
              /\ layout[i].size = partitions[i][2]
              /\ layout[i].end = layout[i].start + layout[i].size
              /\ layout[i].start = IF i = 1 THEN 0 ELSE layout[i - 1].end
        /\ \A i, j \in 1..Len(layout) :
              i < j => layout[i].end <= layout[j].start
        /\ Len(layout) > 0 => layout[Len(layout)].end <= flash_size

\* C1 witness: a returned layout of three records that fills the flash exactly
C1_Witness ==
    /\ pc = "returned"
    /\ Len(layout) = 3
    /\ \A i \in 1..3 : layout[i].size > 0
    /\ SumSizes(partitions, 3) = flash_size

\* C2: when the sizes sum to more than the capacity, calculate_partitions
\* raises the capacity error naming the first request at which the cumulative
\* sum exceeds the capacity, and returns no record list; capacity 1024 with
\* requests [(a,600),(b,600)] fails naming b.
C2_OverflowNamesFirstOver ==
    /\ (Called /\ SumSizes(partitions, Len(partitions)) > flash_size) =>
          /\ pc = "raised"
          /\ error.type = "ValueError"
          /\ error.message.name = partitions[FirstOver][1]
          /\ layout = <<>>
    /\ (Called /\ flash_size = 1024
               /\ partitions = << <<"a", 600>>, <<"b", 600>> >>) =>
          /\ pc = "raised"
          /\ error.message.name = "b"

\* C2 witness: the error names the second of three requests, the first of
\* which fits and has another name
C2_Witness ==
    /\ pc = "raised"
    /\ Len(partitions) = 3
    /\ FirstOver = 2
    /\ partitions[1][1] # partitions[2][1]
    /\ partitions[1][2] > 0
    /\ error.message.name = partitions[2][1]

\* C3 as stated: the capacity error carries the offending partition's name
\* and the overflow amount (cursor + size - capacity), and is the only error
\* kind of the calculator.
C3_ErrorCarriesOverflowAmount ==
    pc = "raised" =>
        /\ error.type = "ValueError"
        /\ "name" \in DOMAIN error.message
        /\ "overflow" \in DOMAIN error.message
        /\ error.message.overflow =
              SumSizes(partitions, FirstOver) - flash_size

\* C3 as amended: the capacity error carries the offending partition's name
\* and nothing else (no overflow amount); it is a ValueError, the only error
\* kind of the calculator, and a call that returns raises nothing.
C3_ErrorCarriesNameOnly ==
    /\ pc = "raised" =>
          /\ error.type = "ValueError"
          /\ DOMAIN error.message = {"template", "name"}
          /\ \E i \in 1..Len(partitions) :
                /\ error.message.name = partitions[i][1]
                /\ SumSizes(partitions, i) > flash_size
    /\ pc = "returned" => error = NoError

\* C3 witness: an error raised for a request that overflows by more than zero
C3_Witness ==
    /\ pc = "raised"
    /\ error.type = "ValueError"
    /\ SumSizes(partitions, FirstOver) - flash_size = 2
    /\ error.message.name = partitions[FirstOver][1]

\* C6 as stated: capacity 1,048,576 with requests mcuboot 112640, slot0
\* 430080, slot1 430080, scratch 1024, storage 77824: the sizes sum to the
\* capacity and the records are mcuboot [0x0,0x1B800), slot0
\* [0x1B800,0x87800), slot1 [0x87800,0xF3800), scratch [0xF3800,0xF3C00),
\* storage [0xF3C00,0x100000).
C6_ExampleLayout ==
    (Called /\ flash_size = 1048576
            /\ partitions = << <<"mcuboot", 112640>>, <<"slot0", 430080>>,
                               <<"slot1", 430080>>, <<"scratch", 1024>>,
                               <<"storage", 77824>> >>) =>
        /\ SumSizes(partitions, 5) = 1048576
        /\ pc = "returned"
        /\ layout =
              << [name |-> "mcuboot", start |-> 0, end |-> 112640, size |-> 112640],
                 [name |-> "slot0", start |-> 112640, end |-> 555008, size |-> 430080],
                 [name |-> "slot1", start |-> 555008, end |-> 997376, size |-> 430080],
                 [name |-> "scratch", start |-> 997376, end |-> 998400, size |-> 1024],
                 [name |-> "storage", start |-> 998400, end |-> 1048576, size |-> 77824] >>

\* C6 as amended: capacity 1,048,576 with the requests main defines, mcuboot
\* 112640, slot0 428544, slot1 428544, scratch 1024, storage 77824: the sizes
\* sum to the capacity and the calculator returns mcuboot [0x0,0x1B800),
\* slot0 [0x1B800,0x84200), slot1 [0x84200,0xECC00), scratch
\* [0xECC00,0xED000), storage [0xED000,0x100000).
C6_MainLayout ==
    (Called /\ flash_size = 1048576
            /\ partitions = << <<"mcuboot", 112640>>, <<"slot0", 428544>>,
                               <<"slot1", 428544>>, <<"scratch", 1024>>,
                               <<"storage", 77824>> >>) =>
        /\ SumSizes(partitions, 5) = 1048576
        /\ pc = "returned"
        /\ layout =
              << [name |-> "mcuboot", start |-> 0, end |-> 112640, size |-> 112640],
                 [name |-> "slot0", start |-> 112640, end |-> 541184, size |-> 428544],
                 [name |-> "slot1", start |-> 541184, end |-> 969728, size |-> 428544],
                 [name |-> "scratch", start |-> 969728, end |-> 970752, size |-> 1024],
                 [name |-> "storage", start |-> 970752, end |-> 1048576, size |-> 77824] >>

\* C6 witness: calculate_partitions has returned for the configuration of main
C6_Witness ==
    /\ pc = "returned"
    /\ flash_size = FLASH_SIZE
    /\ partitions = MainPartitions
    /\ Len(layout) = 5
    /\ layout[5].end = 1048576
(***************************************************************************)
(* Properties of the emitters, of main and of the reader (under Spec).     *)
(***************************************************************************)
\* a line without its terminator
Chomp(line) ==
    IF line # <<>> /\ line[Len(line)] = "\n"
    THEN SubSeq(line, 1, Len(line) - 1) ELSE line

\* the lines of a text, without their terminators
TextLines(text) ==
    LET ls == FileLines(text) IN [i \in 1..Len(ls) |-> Chomp(ls[i])]

\* the integer a "<prefix>0x<hex digits>" line holds, -1 if it is no such line
HexField(line, prefix) ==
    LET rest == SubSeq(line, Len(prefix) + 1, Len(line))
    IN  IF startswith(line, prefix) /\ startswith(rest, <<"0", "x">>)
             /\ int16(rest).ok
        THEN int16(rest).value ELSE -1

\* the partition-manager naming table, as documented
PmKey(name) ==
    CASE name = "mcuboot" -> "mcuboot"
      [] name = "slot0" -> "mcuboot_primary"
      [] name = "slot1" -> "mcuboot_secondary"
      [] name = "scratch" -> "mcuboot_scratch"
      [] name = "storage" -> "settings_storage"
      [] OTHER -> name

\* the overlay label table, as documented
OverlayLabel(name) ==
    CASE name = "slot0" -> "image-0"
      [] name = "slot1" -> "image-1"
      [] name = "scratch" -> "image-scratch"
      [] OTHER -> name

\* C4: when calculate_partitions raises in a run of main, neither emitter is
\* executed and neither pm_static.yml nor app.overlay is written in that run;
\* and every emitter call of a run is made on the layout calculate_partitions
\* returned for the run's configuration.
C4_EmittersOnlyOnReturnedLayout ==
    /\ error # NoError =>
          /\ pc = "failed"
          /\ emitted = <<>>
          /\ written = {}
          /\ \A f \in {"pm_static.yml", "app.overlay"} : fs[f] \in {fs0[f], NoFile}
    /\ \A k \in 1..Len(emitted) :
          /\ error = NoError
          /\ ~calculate_partitions(flash_size, partitions).raised
          /\ emitted[k].arg = calculate_partitions(flash_size, partitions).value
    /\ written # {} => emitted # <<>>

\* C4 witness: a run whose calculation overflowed, in a directory that held
\* both artifacts
C4_Witness ==
    /\ pc = "failed"
    /\ error.type = "ValueError"
    /\ fs0["pm_static.yml"].exists
    /\ fs0["app.overlay"].exists
    /\ emitted = <<>>

\* C5: parsing the pm_static.yml that update_pm_static_yml wrote for a
\* layout with analyze_partition_usage recovers, for each record, its name
\* with its start (address), end (end_address) and size.
C5_RoundTrip ==
    (pc = "done" /\ usage # NotRun) =>
        /\ usage.kind = "dict"
        /\ \A i \in 1..Len(layout) :
              /\ Str(layout[i].name) \in DOMAIN usage.partitions
              /\ DOMAIN usage.partitions[Str(layout[i].name)] = usage_keys
              /\ usage.partitions[Str(layout[i].name)]["address"] = layout[i].start
              /\ usage.partitions[Str(layout[i].name)]["end_address"] = layout[i].end
              /\ usage.partitions[Str(layout[i].name)]["size"] = layout[i].size

\* C7: pm_static.yml as written holds the fixed header and then one block
\* per record, in order: the key is the record's name mapped through the
\* naming table (other names unchanged), address, end_address and size are
\* the record's start, end and size in hex, and region is flash_primary; for
\* no records only the header is there.
C7_PmStaticBlocks ==
    "pm_static.yml" \in written =>
        LET text == fs["pm_static.yml"].content
            L == TextLines(text)
            header == Chars["# Auto-generated pm_static.yml from partion.py\n"]
                        \o Chars["# Nordic Partition Manager static configuration\n\n"]
        IN  /\ startswith(text, header)
            /\ Len(L) = 3 + 6 * Len(layout)
            /\ Len(layout) = 0 => text = header
            /\ \A i \in 1..Len(layout) :
                  LET at == 3 + 6 * (i - 1)
                  IN  /\ L[at + 1] = Str(PmKey(layout[i].name)) \o <<":">>
                      /\ HexField(L[at + 2], Chars["  address: "]) = layout[i].start
                      /\ HexField(L[at + 3], Chars["  end_address: "]) = layout[i].end
                      /\ L[at + 4] = Chomp(Chars["  region: flash_primary\n"])
                      /\ HexField(L[at + 5], Chars["  size: "]) = layout[i].size
                      /\ L[at + 6] = <<>>

\* C7 witness: pm_static.yml written for the five partitions of main
C7_Witness ==
    /\ "pm_static.yml" \in written
    /\ Len(layout) = 5
    /\ layout[2].name = "slot0"
    /\ layout[2].size # layout[2].end
    /\ fs["pm_static.yml"].exists

\* the lines of app.overlay between the preamble and the two closing lines
OverlayFirst == Len(FileLines(overlay_preamble)) + 1
OverlayBlank(L) == {k \in OverlayFirst..(Len(L) - 2) : L[k] = <<>>}
NodeEnd(L, j) ==
    CHOOSE k \in OverlayBlank(L) : Cardinality({m \in OverlayBlank(L) : m <= k}) = j
NodeStart(L, j) == IF j = 1 THEN OverlayFirst ELSE NodeEnd(L, j - 1) + 1

\* the two integers of a "<prefix>0x........ 0x........>;" line
RegCells(line) ==
    LET prefix == Chars["\t\t\treg = <"]
        cells == SubSeq(line, Len(prefix) + 1, Len(line) - 2)
    IN  IF /\ startswith(line, prefix)
           /\ Len(cells) = 21
           /\ cells[11] = " "
           /\ SubSeq(line, Len(line) - 1, Len(line)) = <<">", ";">>
        THEN <<HexField(SubSeq(cells, 1, 10), <<>>),
               HexField(SubSeq(cells, 12, 21), <<>>)>>
        ELSE <<-1, -1>>

\* C8: app.overlay as written holds, after the fixed preamble, one node per
\* record, in order: the node is named <name>_partition, its label is the
\* record's name mapped through the overlay table (other names unchanged),
\* its reg is <start size> of the record, and it holds the read-only marker
\* exactly when the record is named mcuboot.
C8_OverlayNodes ==
    "app.overlay" \in written =>
        LET text == fs["app.overlay"].content
            L == TextLines(text)
        IN  /\ startswith(text, overlay_preamble)
            /\ Cardinality(OverlayBlank(L)) = Len(layout)
            /\ L[Len(L) - 1] = <<"\t", "}", ";">>
            /\ L[Len(L)] = <<"}", ";">>
            /\ \A i \in 1..Len(layout) :
                  LET from == NodeStart(L, i)
                      to == NodeEnd(L, i)
                  IN  /\ startswith(L[from],
                                    <<"\t", "\t">> \o Str(layout[i].name)
                                        \o Chars["_partition"] \o Chars[": partition@"])
                      /\ L[from + 1] =
                            Chars["\t\t\tlabel = \""]
                                \o Str(OverlayLabel(layout[i].name)) \o <<"\"", ";">>
                      /\ RegCells(L[from + 2]) = <<layout[i].start, layout[i].size>>
                      /\ L[to - 1] = <<"\t", "\t", "}", ";">>
                      /\ (\E k \in from..to : L[k] = Chomp(Chars["\t\t\tread-only;\n"]))
                            <=> layout[i].name = "mcuboot"

\* C8 witness: app.overlay written for the five partitions of main
C8_Witness ==
    /\ "app.overlay" \in written
    /\ Len(layout) = 5
    /\ layout[1].name = "mcuboot"
    /\ layout[2].name = "slot0"
    /\ layout[2].size # layout[2].end
    /\ fs["app.overlay"].exists

C10_FailedRunLeavesArtifacts ==
    pc = "failed" =>
        \A f \in {"pm_static.yml", "app.overlay"} :
            fs0[f].exists => fs[f] = fs0[f]
====
